---------------------------- MODULE Spec2Model ----------------------------
(***************************************************************************)
(* Model of convertsvstopng.py: one run of the slide pipeline.             *)
(*                                                                         *)
(*   __main__                   parses the slide path into the metadata    *)
(*                              record, then calls the two functions below *)
(*   slide_to_scaled_pil_image  opens the slide, scales it, saves the PNG  *)
(*   send_image                 builds the concepts, posts the image and   *)
(*                              removes the PNG and the SVS on success     *)
(*   get_project                scans tcga_metadata.csv for the short id   *)
(*                                                                         *)
(* Python strings that the program splits, slices or rewrites are modelled *)
(* as sequences of one-character strings, so that str.split, slicing and   *)
(* str.replace are computed character by character.  Python indices are    *)
(* 0-based and TLA+ sequences 1-based: Python x[i] is x[i + 1] here.       *)
(***************************************************************************)
EXTENDS Integers, Sequences, FiniteSets, TLC

(***************************************************************************)
(* Inputs of a run: command lines.                                         *)
(***************************************************************************)
\* "cancer_a/site_1/GDC123/TCGA-AB-1234-01Z.svs"
PathExample ==
    <<"c", "a", "n", "c", "e", "r", "_", "a", "/", "s", "i", "t", "e", "_", "1", "/", "G", "D", "C", "1", "2", "3", "/", "T", "C", "G", "A", "-", "A", "B", "-", "1", "2", "3", "4", "-", "0", "1", "Z", ".", "s", "v", "s">>
\* "./lgg/G2/TCGA-AB-1234-01Z.a1.svs"
PathDotSlash ==
    <<".", "/", "l", "g", "g", "/", "G", "2", "/", "T", "C", "G", "A", "-", "A", "B", "-", "1", "2", "3", "4", "-", "0", "1", "Z", ".", "a", "1", ".", "s", "v", "s">>
\* "data/gbm/G7/TCGA-02-0001-01Z.tiff"
PathTiff ==
    <<"d", "a", "t", "a", "/", "g", "b", "m", "/", "G", "7", "/", "T", "C", "G", "A", "-", "0", "2", "-", "0", "0", "0", "1", "-", "0", "1", "Z", ".", "t", "i", "f", "f">>
\* "data/luad/G9/TCGA-05-4244-01Z.png"
PathPng ==
    <<"d", "a", "t", "a", "/", "l", "u", "a", "d", "/", "G", "9", "/", "T", "C", "G", "A", "-", "0", "5", "-", "4", "2", "4", "4", "-", "0", "1", "Z", ".", "p", "n", "g">>
\* "d/Lymphoid Neoplasm Diffuse Large B-cell/G1/TCGA-AB-1234-01A.svs"
PathLongCancer ==
    <<"d", "/", "L", "y", "m", "p", "h", "o", "i", "d", " ", "N", "e", "o", "p", "l", "a", "s", "m", " ", "D", "i", "f", "f", "u", "s", "e", " ", "L", "a", "r", "g", "e", " ", "B", "-", "c", "e", "l", "l", "/", "G", "1", "/", "T", "C", "G", "A", "-", "A", "B", "-", "1", "2", "3", "4", "-", "0", "1", "A", ".", "s", "v", "s">>
\* "slides/TCGA-AB-1234-01Z.svs"
PathTwoSegments ==
    <<"s", "l", "i", "d", "e", "s", "/", "T", "C", "G", "A", "-", "A", "B", "-", "1", "2", "3", "4", "-", "0", "1", "Z", ".", "s", "v", "s">>
\* "a/b/c/slide.svs"
PathNoHyphen ==
    <<"a", "/", "b", "/", "c", "/", "s", "l", "i", "d", "e", ".", "s", "v", "s">>

SlidePaths ==
    { PathExample, PathDotSlash, PathTiff, PathPng, PathLongCancer,
      PathTwoSegments, PathNoHyphen }

(***************************************************************************)
(* Inputs of a run: rows of tcga_metadata.csv as csv.reader yields them.   *)
(* A blank line of the file is yielded as the empty list.                  *)
(***************************************************************************)
\* 1,Lymph nodes;Hematopoietic and reticuloendothelial systems,x,
\* Mature B-Cell Lymphomas,Lymphoid Neoplasm Diffuse Large B-cell Lymphoma,
\* x,x,DLBC;;Lymph nodes,TCGA-AB-1234
RowDlbc ==
    << <<"1">>,
       <<"L", "y", "m", "p", "h", " ", "n", "o", "d", "e", "s", ";", "H", "e", "m", "a", "t", "o", "p", "o", "i", "e", "t", "i", "c", " ", "a", "n", "d", " ", "r", "e", "t", "i", "c", "u", "l", "o", "e", "n", "d", "o", "t", "h", "e", "l", "i", "a", "l", " ", "s", "y", "s", "t", "e", "m", "s">>,
       <<"x">>,
       <<"M", "a", "t", "u", "r", "e", " ", "B", "-", "C", "e", "l", "l", " ", "L", "y", "m", "p", "h", "o", "m", "a", "s">>,
       <<"L", "y", "m", "p", "h", "o", "i", "d", " ", "N", "e", "o", "p", "l", "a", "s", "m", " ", "D", "i", "f", "f", "u", "s", "e", " ", "L", "a", "r", "g", "e", " ", "B", "-", "c", "e", "l", "l", " ", "L", "y", "m", "p", "h", "o", "m", "a">>,
       <<"x">>,
       <<"x">>,
       <<"D", "L", "B", "C", ";", ";", "L", "y", "m", "p", "h", " ", "n", "o", "d", "e", "s">>,
       <<"T", "C", "G", "A", "-", "A", "B", "-", "1", "2", "3", "4">> >>
\* 2,Brain,x,Gliomas,Brain Lower Grade Glioma,x,x,LGG,TCGA-AB-1234
RowLgg ==
    << <<"2">>,
       <<"B", "r", "a", "i", "n">>,
       <<"x">>,
       <<"G", "l", "i", "o", "m", "a", "s">>,
       <<"B", "r", "a", "i", "n", " ", "L", "o", "w", "e", "r", " ", "G", "r", "a", "d", "e", " ", "G", "l", "i", "o", "m", "a">>,
       <<"x">>,
       <<"x">>,
       <<"L", "G", "G">>,
       <<"T", "C", "G", "A", "-", "A", "B", "-", "1", "2", "3", "4">> >>
\* 3,Brain,x,Gliomas,Glioblastoma Multiforme,x,x,GBM,TCGA-02-0001-01Z
RowFullId ==
    << <<"3">>,
       <<"B", "r", "a", "i", "n">>,
       <<"x">>,
       <<"G", "l", "i", "o", "m", "a", "s">>,
       <<"G", "l", "i", "o", "b", "l", "a", "s", "t", "o", "m", "a", " ", "M", "u", "l", "t", "i", "f", "o", "r", "m", "e">>,
       <<"x">>,
       <<"x">>,
       <<"G", "B", "M">>,
       <<"T", "C", "G", "A", "-", "0", "2", "-", "0", "0", "0", "1", "-", "0", "1", "Z">> >>
RowBlank ==
    << >>

CsvRows ==
    { RowDlbc, RowLgg, RowFullId, RowBlank }

\* Largest number of rows in the reference tables that are explored.
MaxRows ==
    2

RECURSIVE SeqsUpTo(_, _)
SeqsUpTo(S, n) ==
    IF n = 0
    THEN { << >> }
    ELSE LET shorter == SeqsUpTo(S, n - 1)
         IN  shorter \cup { Append(t, r) : t \in shorter, r \in S }

Tables ==
    SeqsUpTo(CsvRows, MaxRows)

\* tcga_metadata.csv: absent from the working directory, or present with rows.
ReferenceFiles ==
    { [present |-> FALSE, rows |-> << >>] }
        \cup { [present |-> TRUE, rows |-> t] : t \in Tables }

\* What the service answers to the one PostInputs call.
SUCCESS ==
    "SUCCESS"

Responses ==
    { [status |-> [code |-> SUCCESS, details |-> ""]],
      [status |-> [code |-> "CONN_KEY_INVALID", details |-> "Invalid API key"]],
      [status |-> [code |-> "INPUT_DOWNLOAD_FAILED", details |-> "Bad image"]] }

(***************************************************************************)
(* Python string operations.                                               *)
(***************************************************************************)
\* Index of the first occurrence of character c in s, 0 when there is none.
IndexOf(s, c) ==
    IF \E i \in 1..Len(s) : s[i] = c
    THEN CHOOSE i \in 1..Len(s) : s[i] = c /\ \A j \in 1..(i - 1) : s[j] # c
    ELSE 0

\* s.split(c) for a one-character separator: "" gives [""], "a;;b" gives
\* ["a", "", "b"].
RECURSIVE Split(_, _)
Split(s, c) ==
    LET i == IndexOf(s, c)
    IN  IF i = 0
        THEN << s >>
        ELSE << SubSeq(s, 1, i - 1) >> \o Split(SubSeq(s, i + 1, Len(s)), c)

\* s.replace(a, b) for one-character a and b.
Replace(s, a, b) ==
    [i \in 1..Len(s) |-> IF s[i] = a THEN b ELSE s[i]]

\* Index of the last occurrence of character c in s, 0 when there is none.
LastIndexOf(s, c) ==
    IF \E i \in 1..Len(s) : s[i] = c
    THEN CHOOSE i \in 1..Len(s) : s[i] = c /\ \A j \in (i + 1)..Len(s) : s[j] # c
    ELSE 0

\* os.path.splitext(p)[0]: p without the extension of its last component.
\* The extension starts at the last dot of the last component, unless that
\* component has only dots before it.
SplitextRoot(p) ==
    LET sep == LastIndexOf(p, "/")
        dot == LastIndexOf(p, ".")
    IN  IF dot > sep /\ \E k \in (sep + 1)..(dot - 1) : p[k] # "."
        THEN SubSeq(p, 1, dot - 1)
        ELSE p

DotPng == <<".", "p", "n", "g">>
DotSvs == <<".", "s", "v", "s">>

(***************************************************************************)
(* __main__: the metadata record parsed from the slide path.               *)
(***************************************************************************)
\* split_vars[3], tcga[1] and tcga[2] exist; otherwise the indexing raises
\* IndexError.
PathShapeOk(path) ==
    LET split_vars == Split(path, "/")
    IN  /\ Len(split_vars) >= 4
        /\ Len(Split(Split(split_vars[4], ".")[1], "-")) >= 3

\* The record with the segments counted from the first one.
sample_metadata_FromFirst(path) ==
    LET split_vars   == Split(path, "/")
        tcga_full_id == Split(split_vars[4], ".")[1]
        tcga         == Split(tcga_full_id, "-")
    IN  [ general_cancer |-> split_vars[1],
          gdc_id         |-> split_vars[2],
          tcga_full_id   |-> tcga_full_id,
          tcga_id        |-> tcga[1] \o <<"-">> \o tcga[2] \o <<"-">> \o tcga[3] ]

sample_metadata(path) ==
    LET split_vars   == Split(path, "/")
        tcga_full_id == Split(split_vars[4], ".")[1]
        tcga         == Split(tcga_full_id, "-")
    IN  [ general_cancer |-> split_vars[2],
          gdc_id         |-> split_vars[3],
          tcga_full_id   |-> tcga_full_id,
          tcga_id        |-> tcga[1] \o <<"-">> \o tcga[2] \o <<"-">> \o tcga[3] ]

(***************************************************************************)
(* get_project: the scan of the reference table.                           *)
(***************************************************************************)
None ==
    [kind |-> "None"]

\* The scan stopped on row[8] of a row that has fewer than 9 columns.
IndexError ==
    [kind |-> "IndexError"]

\* The scan with the project name read from the disease type column.
RECURSIVE get_project_WrongColumn(_, _)
get_project_WrongColumn(rows, match) ==
    IF rows = << >>
    THEN None
    ELSE LET row == Head(rows)
         IN  IF Len(row) < 9
             THEN IndexError
             ELSE IF row[9] = match
                  THEN [ kind                 |-> "dict",
                         primary_site         |-> row[2],
                         project_disease_type |-> row[4],
                         project_name         |-> row[4],
                         tcga_cancer_type     |-> row[8] ]
                  ELSE get_project_WrongColumn(Tail(rows), match)

RECURSIVE get_project(_, _)
get_project(rows, match) ==
    IF rows = << >>
    THEN None
    ELSE LET row == Head(rows)
         IN  IF Len(row) < 9
             THEN IndexError
             ELSE IF row[9] = match
                  THEN [ kind                 |-> "dict",
                         primary_site         |-> row[2],
                         project_disease_type |-> row[4],
                         project_name         |-> row[5],
                         tcga_cancer_type     |-> row[8] ]
                  ELSE get_project(Tail(rows), match)

(***************************************************************************)
(* send_image: the concepts.                                               *)
(***************************************************************************)
\* The length after which a label taken from the reference row is cut.
MaxLabelLen ==
    31

Concept(id) ==
    [id |-> id, value |-> 1]

\* The token kept whole.
Truncate_Never(x) ==
    x

\* x[:31] if len(x) > 31 else x
Truncate(x) ==
    IF Len(x) > MaxLabelLen THEN SubSeq(x, 1, MaxLabelLen) ELSE x

\* The concept appended for one token of a field of the reference row.
TokenConcept(token) ==
    Concept(Replace(Truncate(token), " ", "_"))

\* The concepts appended by one of the three for loops.
FieldConcepts(field) ==
    LET tokens == Split(field, ";")
    IN  [i \in 1..Len(tokens) |-> TokenConcept(tokens[i])]

\* concepts = [Concept(id=meta_data["general_cancer"], value=1.)]
InitialConcepts(md) ==
    << Concept(md.general_cancer) >>

\* The concepts with a fourth loop, over the disease type field.
ProjectConcepts_WithDisease(proj) ==
    IF proj # None
    THEN FieldConcepts(proj.primary_site)
             \o FieldConcepts(proj.project_disease_type)
             \o FieldConcepts(proj.project_name)
             \o FieldConcepts(proj.tcga_cancer_type)
    ELSE << >>

\* The body of `if project is not None:`.
ProjectConcepts(proj) ==
    IF proj # None
    THEN FieldConcepts(proj.primary_site)
             \o FieldConcepts(proj.project_name)
             \o FieldConcepts(proj.tcga_cancer_type)
    ELSE << >>

(***************************************************************************)
(* slide_to_scaled_pil_image: opening the slide.                           *)
(***************************************************************************)
\* The try statement without its second except clause.
CaughtOpenErrors_OnlyOpenSlide ==
    { "OpenSlideError" }

\* The exception classes the try statement around open_slide catches.
CaughtOpenErrors ==
    { "OpenSlideError", "FileNotFoundError" }

\* The message without the details of the response.
FailureMessage_NoDetails(response) ==
    "Post inputs failed, status: "

\* "Post inputs failed, status: " + post_inputs_response.status.details
FailureMessage(response) ==
    "Post inputs failed, status: " \o response.status.details

(***************************************************************************)
(* State.                                                                  *)
(***************************************************************************)
VARIABLES
    slide_path,            \* args.slide_path
    files,                 \* the paths that exist on disk
    slide_file,            \* what the file at slide_path holds, see SlideFiles
    reference_file,        \* tcga_metadata.csv
    service_response,      \* what the service answers to PostInputs
    meta_data,             \* sample_metadata of __main__
    slide,                 \* local of slide_to_scaled_pil_image
    new_slide_name,        \* result of slide_to_scaled_pil_image
    project,               \* local of send_image
    concepts,              \* local of send_image
    request,               \* the PostInputsRequest that was sent
    post_inputs_response,  \* local of send_image
    stdout,                \* the lines the run printed, in order
    exc,                   \* the unhandled exception that ended the run
    calls,                 \* the external effects of the run, in order
    pc                     \* where the run is

vars ==
    << slide_path, files, slide_file, reference_file, service_response,
       meta_data, slide, new_slide_name, project, concepts, request,
       post_inputs_response, stdout, exc, calls, pc >>

inputs ==
    << slide_path, slide_file, reference_file, service_response >>

Unset ==
    [kind |-> "unset"]

NoExc ==
    [type |-> "none", msg |-> ""]

\* The path removed last, with the extension of the image instead.
SvsOf_Png(path) ==
    SplitextRoot(path) \o DotPng

\* The path send_image removes last: splitext(img_location)[0] + '.svs'.
SvsOf(path) ==
    SplitextRoot(path) \o DotSvs

\* new_slide_name = os.path.splitext(slide_path)[0] + '.png'
PngOf(path) ==
    SplitextRoot(path) \o DotPng

\* What the file at slide_path can be for openslide.open_slide:
\*   "missing"       there is no such file;
\*   "slide"         a slide OpenSlide reads, or an image PIL reads;
\*   "damaged"       a file of a slide format that OpenSlide fails to read;
\*   "unrecognised"  a file of a format neither OpenSlide nor PIL knows.
SlideFiles ==
    { "missing", "slide", "damaged", "unrecognised" }

\* What open_slide does with the path: returns a handle, or raises.  It
\* tries OpenSlide first and, for a file OpenSlide does not recognise, PIL:
\* a missing file ends in PIL's FileNotFoundError, a damaged slide in
\* OpenSlideError, a file of unknown format in PIL's UnidentifiedImageError,
\* which is an OSError and no OpenSlideError.
OpenOutcome ==
    CASE slide_file = "missing"      -> "FileNotFoundError"
      [] slide_file = "damaged"      -> "OpenSlideError"
      [] slide_file = "unrecognised" -> "UnidentifiedImageError"
      [] OTHER                       -> "OpenSlide"

Init ==
    /\ slide_path \in SlidePaths
    /\ files \in SUBSET { slide_path, SvsOf(slide_path) }
    /\ slide_file \in SlideFiles
    /\ slide_file = "missing" <=> slide_path \notin files
    /\ reference_file \in ReferenceFiles
    /\ service_response \in Responses
    /\ meta_data = Unset
    /\ slide = "unset"
    /\ new_slide_name = << >>
    /\ project = Unset
    /\ concepts = << >>
    /\ request = Unset
    /\ post_inputs_response = Unset
    /\ stdout = << >>
    /\ exc = NoExc
    /\ calls = << >>
    /\ pc = "START"

(***************************************************************************)
(* __main__, lines 216-225.                                                *)
(***************************************************************************)
ParseArgs ==
    /\ pc = "START"
    /\ IF PathShapeOk(slide_path)
       THEN /\ meta_data' = sample_metadata(slide_path)
            /\ pc' = "PARSED"
            /\ exc' = exc
       ELSE /\ exc' = [type |-> "IndexError", msg |-> ""]
            /\ pc' = "FAULT"
            /\ meta_data' = meta_data
    /\ UNCHANGED << inputs, files, slide, new_slide_name, project, concepts,
                    request, post_inputs_response, stdout, calls >>

(***************************************************************************)
(* slide_to_scaled_pil_image.                                              *)
(***************************************************************************)
\* Lines 143-151: the print of the path, then the try statement around
\* openslide.open_slide.
OpenSlide ==
    /\ pc = "PARSED"
    /\ stdout' = Append(stdout, [ format |-> "[ info ] Opening Slide : %s",
                                  arg    |-> slide_path ])
    /\ calls' = Append(calls, "open_slide")
    /\ IF OpenOutcome = "OpenSlide"
       THEN /\ slide' = "OpenSlide"
            /\ pc' = "OPEN_RETURNED"
            /\ exc' = exc
       ELSE IF OpenOutcome \in CaughtOpenErrors
            THEN /\ slide' = "None"
                 /\ pc' = "OPEN_RETURNED"
                 /\ exc' = exc
            ELSE /\ exc' = [type |-> OpenOutcome, msg |-> ""]
                 /\ pc' = "SLIDE_OPEN_FAILED"
                 /\ slide' = slide
    /\ UNCHANGED << inputs, files, meta_data, new_slide_name, project,
                    concepts, request, post_inputs_response >>

\* Line 155: large_w, large_h = slide.dimensions
ReadDimensions ==
    /\ pc = "OPEN_RETURNED"
    /\ IF slide = "None"
       THEN /\ exc' = [type |-> "AttributeError", msg |-> ""]
            /\ pc' = "SLIDE_OPEN_FAILED"
       ELSE /\ exc' = exc
            /\ pc' = "SLIDE_OPENED"
    /\ UNCHANGED << inputs, files, meta_data, slide, new_slide_name, project,
                    concepts, request, post_inputs_response, stdout, calls >>

\* Lines 156-192: read, convert, resize, save beside the source, return.
ScaleAndSave ==
    /\ pc = "SLIDE_OPENED"
    /\ new_slide_name' = PngOf(slide_path)
    /\ files' = files \cup { PngOf(slide_path) }
    /\ calls' = Append(calls, "save")
    /\ pc' = "SCALED"
    /\ UNCHANGED << inputs, meta_data, slide, project, concepts, request,
                    post_inputs_response, stdout, exc >>

(***************************************************************************)
(* send_image.                                                             *)
(***************************************************************************)
\* Lines 61-73: read the image bytes, start the concepts.
ReadImage ==
    /\ pc = "SCALED"
    /\ new_slide_name \in files
    /\ concepts' = InitialConcepts(meta_data)
    /\ pc' = "IMAGE_READ"
    /\ UNCHANGED << inputs, files, meta_data, slide, new_slide_name, project,
                    request, post_inputs_response, stdout, exc, calls >>

\* The lookup with a missing reference file treated as a miss.
Lookup_MissingFileIsMiss ==
    /\ pc = "IMAGE_READ"
    /\ calls' = Append(calls, "get_project")
    /\ IF ~reference_file.present
       THEN /\ project' = None
            /\ pc' = "LOOKED_UP"
            /\ exc' = exc
       ELSE LET found == get_project(reference_file.rows, meta_data.tcga_id)
            IN  IF found = IndexError
                THEN /\ exc' = [type |-> "IndexError", msg |-> ""]
                     /\ pc' = "FAULT"
                     /\ project' = project
                ELSE /\ project' = found
                     /\ pc' = "LOOKED_UP"
                     /\ exc' = exc
    /\ UNCHANGED << inputs, files, meta_data, slide, new_slide_name, concepts,
                    request, post_inputs_response, stdout >>

\* Line 74 with get_project, lines 46-51.
Lookup ==
    /\ pc = "IMAGE_READ"
    /\ calls' = Append(calls, "get_project")
    /\ IF ~reference_file.present
       THEN /\ exc' = [type |-> "FileNotFoundError", msg |-> ""]
            /\ pc' = "FAULT"
            /\ project' = project
       ELSE LET found == get_project(reference_file.rows, meta_data.tcga_id)
            IN  IF found = IndexError
                THEN /\ exc' = [type |-> "IndexError", msg |-> ""]
                     /\ pc' = "FAULT"
                     /\ project' = project
                ELSE /\ project' = found
                     /\ pc' = "LOOKED_UP"
                     /\ exc' = exc
    /\ UNCHANGED << inputs, files, meta_data, slide, new_slide_name, concepts,
                    request, post_inputs_response, stdout >>

\* The loops without the `if project is not None:` around them:
\* project["primary_site"] raises TypeError on None.
BuildConcepts_NoNoneCheck ==
    /\ pc = "LOOKED_UP"
    /\ IF project = None
       THEN /\ exc' = [type |-> "TypeError", msg |-> ""]
            /\ pc' = "FAULT"
            /\ concepts' = concepts
       ELSE /\ concepts' = concepts \o ProjectConcepts(project)
            /\ pc' = "LABELS_BUILT"
            /\ exc' = exc
    /\ UNCHANGED << inputs, files, meta_data, slide, new_slide_name, project,
                    request, post_inputs_response, stdout, calls >>

\* Lines 79-92.
BuildConcepts ==
    /\ pc = "LOOKED_UP"
    /\ concepts' = concepts \o ProjectConcepts(project)
    /\ pc' = "LABELS_BUILT"
    /\ UNCHANGED << inputs, files, meta_data, slide, new_slide_name, project,
                    request, post_inputs_response, stdout, exc, calls >>

\* Lines 104-119.
PostInputs ==
    /\ pc = "LABELS_BUILT"
    /\ request' = [ kind     |-> "PostInputsRequest",
                    image    |-> new_slide_name,
                    concepts |-> concepts,
                    metadata |-> meta_data ]
    /\ post_inputs_response' = service_response
    /\ calls' = Append(calls, "PostInputs")
    /\ pc' = "UPLOADED"
    /\ UNCHANGED << inputs, files, meta_data, slide, new_slide_name, project,
                    concepts, stdout, exc >>

\* The check with a failed upload sent again instead of raising.
CheckResponse_Retry ==
    /\ pc = "UPLOADED"
    /\ IF post_inputs_response.status.code # SUCCESS
       THEN /\ stdout' = Append(stdout, [ format |-> "-- Failed Response: {}",
                                          arg    |-> post_inputs_response ])
            /\ pc' = "LABELS_BUILT"
            /\ UNCHANGED << files, calls, exc >>
       ELSE LET svs_img  == SvsOf(new_slide_name)
                after_png == files \ { new_slide_name }
            IN  /\ stdout' = stdout
                /\ IF svs_img \in after_png
                   THEN /\ files' = after_png \ { svs_img }
                        /\ calls' = calls \o << "remove_png", "remove_svs" >>
                        /\ exc' = exc
                        /\ pc' = "CLEANED_UP"
                   ELSE /\ files' = after_png
                        /\ calls' = Append(calls, "remove_png")
                        /\ exc' = [type |-> "FileNotFoundError", msg |-> ""]
                        /\ pc' = "FAULT"
    /\ UNCHANGED << inputs, meta_data, slide, new_slide_name, project,
                    concepts, request, post_inputs_response >>

\* Lines 125-131.
CheckResponse ==
    /\ pc = "UPLOADED"
    /\ IF post_inputs_response.status.code # SUCCESS
       THEN /\ stdout' = Append(stdout, [ format |-> "-- Failed Response: {}",
                                          arg    |-> post_inputs_response ])
            /\ exc' = [ type |-> "Exception",
                        msg  |-> FailureMessage(post_inputs_response) ]
            /\ pc' = "UPLOAD_FAILED"
            /\ UNCHANGED << files, calls >>
       ELSE LET svs_img  == SvsOf(new_slide_name)
                after_png == files \ { new_slide_name }
            IN  /\ stdout' = stdout
                /\ IF svs_img \in after_png
                   THEN /\ files' = after_png \ { svs_img }
                        /\ calls' = calls \o << "remove_png", "remove_svs" >>
                        /\ exc' = exc
                        /\ pc' = "CLEANED_UP"
                   ELSE /\ files' = after_png
                        /\ calls' = Append(calls, "remove_png")
                        /\ exc' = [type |-> "FileNotFoundError", msg |-> ""]
                        /\ pc' = "FAULT"
    /\ UNCHANGED << inputs, meta_data, slide, new_slide_name, project,
                    concepts, request, post_inputs_response >>

Next ==
    \/ ParseArgs
    \/ OpenSlide
    \/ ReadDimensions
    \/ ScaleAndSave
    \/ ReadImage
    \/ Lookup
    \/ BuildConcepts
    \/ PostInputs
    \/ CheckResponse

Spec ==
    Init /\ [][Next]_vars

\* The run has ended: the interpreter exited, normally or on an exception.
Ended ==
    pc \in { "CLEANED_UP", "SLIDE_OPEN_FAILED", "UPLOAD_FAILED", "FAULT" }

\* The exit status of the interpreter once the run has ended.
ExitStatus ==
    IF exc = NoExc THEN 0 ELSE 1

(***************************************************************************)
(* Vocabulary of the properties.                                           *)
(***************************************************************************)
\* The external effect x has happened in this run.
Called(x) ==
    \E i \in DOMAIN calls : calls[i] = x

\* How many times the external effect x has happened in this run.
Count(x) ==
    Cardinality({ i \in DOMAIN calls : calls[i] = x })

\* The upload request has been sent and answered.
Answered ==
    post_inputs_response # Unset

UploadSucceeded ==
    Answered /\ post_inputs_response.status.code = SUCCESS

UploadFailed ==
    Answered /\ post_inputs_response.status.code # SUCCESS

\* path ends with the characters of suffix.
EndsWith(path, suffix) ==
    /\ Len(path) >= Len(suffix)
    /\ SubSeq(path, Len(path) - Len(suffix) + 1, Len(path)) = suffix

\* The per-run state of the pipeline, as the states of the run's state
\* machine: the steps inside a function lie between two of its states.
RunState ==
    CASE pc \in { "START", "PARSED", "OPEN_RETURNED" }  -> "START"
      [] pc \in { "SCALED", "IMAGE_READ", "LOOKED_UP" } -> "SCALED"
      [] OTHER                                          -> pc

\* The success path, in order.
SuccessPath ==
    << "START", "SLIDE_OPENED", "SCALED", "LABELS_BUILT", "UPLOADED",
       "CLEANED_UP" >>

Position(s) ==
    CHOOSE i \in DOMAIN SuccessPath : SuccessPath[i] = s

OnSuccessPath(s) ==
    \E i \in DOMAIN SuccessPath : SuccessPath[i] = s

\* The rows of the reference table whose column 8 is the short id.
MatchingRows ==
    { i \in DOMAIN reference_file.rows :
        /\ Len(reference_file.rows[i]) >= 9
        /\ reference_file.rows[i][9] = meta_data.tcga_id }

\* The rows of the reference table that have no column 8.
ShortRows ==
    { i \in DOMAIN reference_file.rows : Len(reference_file.rows[i]) < 9 }

FirstMatch ==
    CHOOSE i \in MatchingRows : \A j \in MatchingRows : i <= j

\* A row without column 8 is read before any matching row.
ShortRowScanned ==
    \E i \in ShortRows : \A j \in MatchingRows : i < j

\* The semicolon-delimited tokens of a field, by the positions of its
\* semicolons.
Cuts(field) ==
    { i \in 1..Len(field) : field[i] = ";" } \cup { 0, Len(field) + 1 }

NthCut(field, n) ==
    CHOOSE p \in Cuts(field) : Cardinality({ q \in Cuts(field) : q < p }) = n

NumTokens(field) ==
    Cardinality(Cuts(field)) - 1

TokenAt(field, n) ==
    SubSeq(field, NthCut(field, n - 1) + 1, NthCut(field, n) - 1)

\* The tokens of primary site, project name and cancer type of a row, in
\* that order.
SourceTokens(row) ==
    LET n1 == NumTokens(row[2])
        n2 == NumTokens(row[5])
        n3 == NumTokens(row[8])
    IN  [ i \in 1..(n1 + n2 + n3) |->
            IF i <= n1 THEN TokenAt(row[2], i)
            ELSE IF i <= n1 + n2 THEN TokenAt(row[5], i - n1)
            ELSE TokenAt(row[8], i - n1 - n2) ]

\* The first 31 characters of a value, every space replaced by an underscore.
CutAndUnderscore(value) ==
    [ k \in 1..(IF Len(value) < 31 THEN Len(value) ELSE 31) |->
        IF value[k] = " " THEN "_" ELSE value[k] ]

\* The value the i-th entry of the Label Set is made from.
LabelSource(i) ==
    IF i = 1
    THEN meta_data.general_cancer
    ELSE SourceTokens(reference_file.rows[FirstMatch])[i - 1]

HasSpace(s) ==
    \E k \in 1..Len(s) : s[k] = " "

(***************************************************************************)
(* C1 as stated.  Once a run whose upload succeeded has ended, neither the *)
(* scaled output image nor the source slide given on the command line      *)
(* exists on disk.                                                         *)
(***************************************************************************)
C1_EveryPathCleaned ==
    (Ended /\ UploadSucceeded)
        => (new_slide_name \notin files /\ slide_path \notin files)

(***************************************************************************)
(* C1, amended.  Once a run whose upload succeeded has ended, the scaled   *)
(* output image does not exist, and the source slide does not exist        *)
(* exactly when the extension of its path, as os.path.splitext gives it,   *)
(* is ".svs" or ".png": the file removed after the image is the image path *)
(* with ".svs" for its extension, which is the source only for an ".svs"   *)
(* source, and a ".png" source is itself the image path.  With any other   *)
(* extension the source is still there.                                    *)
(***************************************************************************)
C1_SvsSourceCleaned ==
    (Ended /\ UploadSucceeded)
        => /\ new_slide_name \notin files
           /\ slide_path \notin files
                  <=> \/ slide_path = SplitextRoot(slide_path) \o DotSvs
                      \/ slide_path = SplitextRoot(slide_path) \o DotPng

C1_Witness ==
    /\ pc = "CLEANED_UP"
    /\ UploadSucceeded
    /\ EndsWith(slide_path, DotSvs)
    /\ Called("remove_svs")
    /\ files = {}

(***************************************************************************)
(* C2.  When the response carries a status other than success, the step    *)
(* that checks it prints the response, so that the output of the run is    *)
(* the line of the opening of the slide and then the response, raises the  *)
(* exception whose message carries the details of the response, and leaves *)
(* the files on disk as they were: the scaled image and the source slide   *)
(* both exist at the end.                                                  *)
(***************************************************************************)
C2_FailedUploadKeepsFiles ==
    [][ (pc = "UPLOADED" /\ UploadFailed)
            => /\ pc' = "UPLOAD_FAILED"
               /\ stdout' = << [ format |-> "[ info ] Opening Slide : %s",
                                 arg    |-> slide_path ],
                               [ format |-> "-- Failed Response: {}",
                                 arg    |-> service_response ] >>
               /\ exc'.type = "Exception"
               /\ exc'.msg = "Post inputs failed, status: "
                                 \o service_response.status.details
               /\ files' = files
               /\ new_slide_name \in files'
               /\ slide_path \in files' ]_vars

C2_Witness ==
    /\ pc = "UPLOAD_FAILED"
    /\ exc.msg = "Post inputs failed, status: Invalid API key"
    /\ Len(stdout) = 2
    /\ stdout[2].arg = post_inputs_response
    /\ { slide_path, new_slide_name } \subseteq files
    /\ slide_path # new_slide_name

(***************************************************************************)
(* C3.  Every run follows the per-run state machine.  A step that changes  *)
(* the state moves one place forward on START, SLIDE_OPENED, SCALED,       *)
(* LABELS_BUILT, UPLOADED, CLEANED_UP, or leaves that path for a failure   *)
(* state and never comes back; the upload request is sent at most once and *)
(* only from LABELS_BUILT, with the concepts complete; a file is removed   *)
(* only by a step taken from UPLOADED after a success response; nothing    *)
(* happens after SLIDE_OPEN_FAILED or UPLOAD_FAILED, and no file has been  *)
(* removed in a run that is in one of them.                                *)
(***************************************************************************)
C3_StateStep ==
    /\ RunState' # RunState
           => /\ OnSuccessPath(RunState)
              /\ OnSuccessPath(RunState')
                     => Position(RunState') = Position(RunState) + 1
              /\ RunState' = "SLIDE_OPEN_FAILED" => RunState = "START"
              /\ RunState' = "UPLOAD_FAILED" => RunState = "UPLOADED"
    /\ Count("PostInputs")' # Count("PostInputs")
           => /\ RunState = "LABELS_BUILT"
              /\ Called("get_project")
              /\ request'.concepts
                     = InitialConcepts(meta_data) \o ProjectConcepts(project)
    /\ ~(files \subseteq files')
           => /\ RunState = "UPLOADED"
              /\ UploadSucceeded
    /\ RunState \notin { "SLIDE_OPEN_FAILED", "UPLOAD_FAILED" }

C3_StateInv ==
    /\ Count("PostInputs") <= 1
    /\ RunState \in { "SLIDE_OPEN_FAILED", "UPLOAD_FAILED" }
           => ~Called("remove_png") /\ ~Called("remove_svs")

C3_StateMachine ==
    [][C3_StateStep]_vars /\ []C3_StateInv

C3_Witness ==
    /\ pc = "CLEANED_UP"
    /\ calls = << "open_slide", "save", "get_project", "PostInputs",
                  "remove_png", "remove_svs" >>
    /\ Len(request.concepts) > 1

(***************************************************************************)
(* C4 as stated.  When open_slide fails on the path, because the file is   *)
(* missing or because it is malformed or of an unsupported format, the     *)
(* handle is None and no exception leaves the try statement; the run then  *)
(* ends on the dimension access with AttributeError; and in such a run     *)
(* opening the slide is the only external effect: no image is saved, no    *)
(* lookup is made, no request is sent and no file is removed.              *)
(***************************************************************************)
C4_OpenFailureIsNullHandle ==
    (Called("open_slide") /\ slide_file # "slide")
        => /\ slide = "None"
           /\ \/ pc = "OPEN_RETURNED" /\ exc = NoExc
              \/ pc = "SLIDE_OPEN_FAILED" /\ exc.type = "AttributeError"
           /\ calls = << "open_slide" >>
           /\ new_slide_name = << >>
           /\ request = Unset

(***************************************************************************)
(* C4, amended.  When open_slide fails because the file is missing or      *)
(* because OpenSlide fails to read it as a slide, the handle is None, no   *)
(* exception leaves the try statement, and the run ends on the dimension   *)
(* access with AttributeError.  When it fails because the file is of a     *)
(* format neither OpenSlide nor PIL knows, the error is not caught: it     *)
(* leaves the try statement and ends the run there, the handle never       *)
(* bound.  In every run where open_slide fails, opening the slide is the   *)
(* only external effect: no image is saved, no lookup is made, no request  *)
(* is sent and no file is removed.                                         *)
(***************************************************************************)
C4_OpenFailureEndsRun ==
    (Called("open_slide") /\ slide_file # "slide")
        => /\ IF slide_file \in { "missing", "damaged" }
              THEN /\ slide = "None"
                   /\ \/ pc = "OPEN_RETURNED" /\ exc = NoExc
                      \/ pc = "SLIDE_OPEN_FAILED"
                             /\ exc.type = "AttributeError"
              ELSE /\ slide = "unset"
                   /\ pc = "SLIDE_OPEN_FAILED"
                   /\ exc.type = "UnidentifiedImageError"
           /\ calls = << "open_slide" >>
           /\ new_slide_name = << >>
           /\ request = Unset
           /\ slide_path \in files <=> slide_file # "missing"

C4_Witness ==
    /\ pc = "SLIDE_OPEN_FAILED"
    /\ slide_file = "damaged"
    /\ slide_path \in files
    /\ slide = "None"
    /\ exc.type = "AttributeError"
    /\ calls = << "open_slide" >>

(***************************************************************************)
(* C5.  When the reference table has a row matching the short id, the      *)
(* concepts of the request that is sent are: the general cancer label,     *)
(* then one entry per semicolon-split token of the primary site field of   *)
(* the first matching row, then of its project name field, then of its     *)
(* cancer type field, each with value 1; there are 1 plus the number of    *)
(* tokens of the three fields of them, none is made from the disease type  *)
(* field and repeated labels are kept.                                     *)
(***************************************************************************)
C5_LabelSetOfMatch ==
    (request # Unset /\ MatchingRows # {})
        => LET row == reference_file.rows[FirstMatch]
               src == SourceTokens(row)
           IN  /\ Len(request.concepts)
                      = 1 + NumTokens(row[2]) + NumTokens(row[5])
                          + NumTokens(row[8])
               /\ request.concepts[1]
                      = [id |-> meta_data.general_cancer, value |-> 1]
               /\ \A i \in 1..Len(src) :
                      request.concepts[i + 1]
                          = [id |-> CutAndUnderscore(src[i]), value |-> 1]

C5_Witness ==
    /\ request # Unset
    /\ MatchingRows # {}
    /\ Len(request.concepts) = 7
    /\ \E i, j \in DOMAIN request.concepts :
           i < j /\ request.concepts[i] = request.concepts[j]
    /\ reference_file.rows[FirstMatch][4] # reference_file.rows[FirstMatch][5]

(***************************************************************************)
(* C6 as stated.  Given a readable reference file, the lookup returns the  *)
(* fields 1, 3, 4 and 7 of the first row whose column 8 is the identifier, *)
(* returns the not-found value when there is no such row, and never raises *)
(* an exception, whatever rows the table holds.                            *)
(***************************************************************************)
C6_LookupNeverRaises ==
    (Called("get_project") /\ reference_file.present)
        => IF MatchingRows # {}
           THEN LET row == reference_file.rows[FirstMatch]
                IN  project = [ kind                 |-> "dict",
                                primary_site         |-> row[2],
                                project_disease_type |-> row[4],
                                project_name         |-> row[5],
                                tcga_cancer_type     |-> row[8] ]
           ELSE project = None

(***************************************************************************)
(* C6, amended.  Given a readable reference file, the lookup returns the   *)
(* fields 1, 3, 4 and 7 of the first row whose column 8 is the identifier  *)
(* and the not-found value when there is no such row, provided that every  *)
(* row read before it returns has at least 9 columns; when a row with      *)
(* fewer than 9 columns comes before the first matching row, or anywhere   *)
(* in a table without a matching row, the lookup raises IndexError and the *)
(* run ends there.                                                         *)
(***************************************************************************)
C6_LookupOfWellFormedRows ==
    (Called("get_project") /\ reference_file.present)
        => IF ShortRowScanned
           THEN pc = "FAULT" /\ exc.type = "IndexError" /\ project = Unset
           ELSE IF MatchingRows # {}
                THEN LET row == reference_file.rows[FirstMatch]
                     IN  project = [ kind                 |-> "dict",
                                     primary_site         |-> row[2],
                                     project_disease_type |-> row[4],
                                     project_name         |-> row[5],
                                     tcga_cancer_type     |-> row[8] ]
                ELSE project = None

C6_Witness ==
    /\ pc = "LOOKED_UP"
    /\ Cardinality(MatchingRows) = 2
    /\ reference_file.rows[1] # reference_file.rows[2]
    /\ project # None
    /\ project.primary_site = reference_file.rows[1][2]

(***************************************************************************)
(* C7 as stated.  For cancer_a/site_1/GDC123/TCGA-AB-1234-01Z.svs the      *)
(* metadata record is general_cancer = "cancer_a", gdc_id = "site_1",      *)
(* tcga_full_id = "TCGA-AB-1234-01Z", tcga_id = "TCGA-AB-1234".            *)
(***************************************************************************)
C7_ExampleRecord ==
    (slide_path = PathExample /\ meta_data # Unset)
        => meta_data = [ general_cancer |-> <<"c", "a", "n", "c", "e", "r", "_", "a">>,
                         gdc_id         |-> <<"s", "i", "t", "e", "_", "1">>,
                         tcga_full_id   |-> <<"T", "C", "G", "A", "-", "A", "B", "-", "1", "2", "3", "4", "-", "0", "1", "Z">>,
                         tcga_id        |-> <<"T", "C", "G", "A", "-", "A", "B", "-", "1", "2", "3", "4">> ]

(***************************************************************************)
(* C7, amended.  For cancer_a/site_1/GDC123/TCGA-AB-1234-01Z.svs the       *)
(* metadata record is general_cancer = "site_1", gdc_id = "GDC123",        *)
(* tcga_full_id = "TCGA-AB-1234-01Z", tcga_id = "TCGA-AB-1234": the        *)
(* general cancer label and the site id are the second and the third       *)
(* segment, and the first segment is not used.                             *)
(***************************************************************************)
C7_ExampleRecordFromSecondSegment ==
    (slide_path = PathExample /\ meta_data # Unset)
        => meta_data = [ general_cancer |-> <<"s", "i", "t", "e", "_", "1">>,
                         gdc_id         |-> <<"G", "D", "C", "1", "2", "3">>,
                         tcga_full_id   |-> <<"T", "C", "G", "A", "-", "A", "B", "-", "1", "2", "3", "4", "-", "0", "1", "Z">>,
                         tcga_id        |-> <<"T", "C", "G", "A", "-", "A", "B", "-", "1", "2", "3", "4">> ]

C7_Witness ==
    /\ slide_path = PathExample
    /\ pc = "PARSED"
    /\ meta_data # Unset

(***************************************************************************)
(* C8 as stated.  Every label of the request that is sent, the general     *)
(* cancer label included, is its source value cut to its first 31          *)
(* characters with every space replaced by an underscore; so it has at     *)
(* most 31 characters and no space.                                        *)
(***************************************************************************)
C8_EveryLabelNormalised ==
    request # Unset
        => \A i \in DOMAIN request.concepts :
               /\ request.concepts[i].id = CutAndUnderscore(LabelSource(i))
               /\ Len(request.concepts[i].id) <= 31
               /\ ~HasSpace(request.concepts[i].id)

(***************************************************************************)
(* C8, amended.  Every label of the request that is made from a            *)
(* semicolon-split token of the reference row is that token, by itself,    *)
(* cut to its first 31 characters with every space replaced by an          *)
(* underscore, so it has at most 31 characters and no space; the general   *)
(* cancer label is stored as it is in the metadata record, neither cut nor *)
(* rewritten.                                                              *)
(***************************************************************************)
C8_TokenLabelsNormalised ==
    request # Unset
        => /\ request.concepts[1].id = meta_data.general_cancer
           /\ \A i \in DOMAIN request.concepts :
                  i > 1 => /\ request.concepts[i].id
                                  = CutAndUnderscore(LabelSource(i))
                           /\ Len(request.concepts[i].id) <= 31
                           /\ ~HasSpace(request.concepts[i].id)

C8_Witness ==
    /\ request # Unset
    /\ HasSpace(request.concepts[1].id)
    /\ Len(request.concepts[1].id) > 31
    /\ \E i \in DOMAIN request.concepts :
           /\ i > 1
           /\ Len(LabelSource(i)) > 31
           /\ HasSpace(LabelSource(i))
           /\ Len(request.concepts[i].id) = 31

(***************************************************************************)
(* C9 as stated.  When no row of the reference table matches the short id, *)
(* the run goes on to send the upload request, and the concepts it sends   *)
(* are the general cancer label with value 1 and nothing else.             *)
(***************************************************************************)
C9_MissProceeds ==
    (Called("get_project") /\ reference_file.present /\ MatchingRows = {})
        => /\ project = None
           /\ concepts = << [id |-> meta_data.general_cancer, value |-> 1] >>
           /\ pc \in { "LOOKED_UP", "LABELS_BUILT" } \/ request # Unset
           /\ request # Unset => request.concepts = concepts

(***************************************************************************)
(* C9, amended.  When no row of the reference table matches the short id   *)
(* and every row has at least 9 columns, the lookup returns the not-found  *)
(* value, the run goes on to send the upload request, and the concepts it  *)
(* sends are the general cancer label with value 1 and nothing else.  (A   *)
(* row with fewer than 9 columns ends the run in the lookup, see C6.)      *)
(***************************************************************************)
C9_MissOfWellFormedRowsProceeds ==
    (/\ Called("get_project")
     /\ reference_file.present
     /\ MatchingRows = {}
     /\ ShortRows = {})
        => /\ project = None
           /\ concepts = << [id |-> meta_data.general_cancer, value |-> 1] >>
           /\ pc \in { "LOOKED_UP", "LABELS_BUILT" } \/ request # Unset
           /\ request # Unset => request.concepts = concepts

C9_Witness ==
    /\ request # Unset
    /\ project = None
    /\ reference_file.rows # << >>
    /\ Len(request.concepts) = 1

(***************************************************************************)
(* C10.  A run that ended after both removals has exit status 0.  A run    *)
(* that ended has a non-zero exit status when the slide failed to open,    *)
(* when the reference file is missing, and when the response carried a     *)
(* status other than success; and a run with the reference file missing    *)
(* has sent no request and removed no file.                                *)
(***************************************************************************)
C10_ExitStatus ==
    Ended
        => /\ pc = "CLEANED_UP"
                  => /\ ExitStatus = 0
                     /\ slide = "OpenSlide"
                     /\ Called("save")
                     /\ UploadSucceeded
                     /\ Called("remove_png") /\ Called("remove_svs")
           /\ (Called("open_slide") /\ slide # "OpenSlide") => ExitStatus # 0
           /\ UploadFailed => ExitStatus # 0
           /\ ~reference_file.present
                  => /\ ExitStatus # 0
                     /\ request = Unset
                     /\ ~Called("PostInputs")
                     /\ ~Called("remove_png") /\ ~Called("remove_svs")

C10_Witness ==
    /\ pc = "FAULT"
    /\ ~reference_file.present
    /\ Called("get_project")
    /\ exc.type = "FileNotFoundError"
    /\ new_slide_name \in files
=============================================================================
